---- MODULE Spec2Model ----
(***************************************************************************)
(* Session runtime of canopy: SessionManager (core/session_manager.py)     *)
(* driving one ClaudeRunner per session (core/claude_runner.py), each of   *)
(* which owns QProcess objects whose stdout is a stream of JSON lines.     *)
(*                                                                         *)
(* Python values are modelled as follows.                                  *)
(*   - an optional string is a string, None being the string NoneStr;      *)
(*   - a dict keyed by session id is a function whose DOMAIN is its keys;  *)
(*   - a JSON value that may be a string or a {text: ...} object is a      *)
(*     record [kind, text] (JStr, JDict, JAbsent);                         *)
(*   - text read from a pipe is a sequence of fragments: NL is the newline *)
(*     character, WS a blank, every other fragment a piece of a line.      *)
(* QProcess is modelled by its documented behaviour: start() puts the      *)
(* object in state Starting and returns; the started / errorOccurred /     *)
(* readyRead / finished signals are delivered later by the event loop.     *)
(***************************************************************************)
EXTENDS Integers, Sequences, FiniteSets, TLC

\* ------------------------------------------------------------------ bounds
\* QProcess objects created, chunks read from the pipes, cancel timers pending,
\* fragments one process prints when every chunking is tried, lines one
\* process prints when every kind of line is tried, QProcess objects created
\* when a replay follows two turns
MaxProcs == 2
MaxOut == 1
MaxTimers == 1
MaxFeed == 5
MaxLines == 2
MaxTurns == 3

SessionIds == {"s1"}
LoadableIds == {"s1"}

\* ------------------------------------------------------------ Python values
NoneStr == "<None>"
NL == "\n"
WS == " "

JStr(t) == [kind |-> "str", text |-> t]
JDict(t) == [kind |-> "dict", text |-> t]
JAbsent == [kind |-> "absent", text |-> ""]

\* bool(v) of a str, of a non-empty dict {"text": ...}, of a missing value
Truthy(v) == IF v.kind = "str" THEN v.text # "" ELSE v.kind = "dict"

\* bool(s) of an optional string
TruthyStr(s) == s # NoneStr /\ s # ""

NoInput == [null |-> TRUE, command |-> NoneStr, file_path |-> NoneStr]
EmptyDict == [null |-> FALSE, command |-> NoneStr, file_path |-> NoneStr]
BashInput(c) == [null |-> FALSE, command |-> c, file_path |-> NoneStr]
FileInput(p) == [null |-> FALSE, command |-> NoneStr, file_path |-> p]

\* `x or {}`
OrEmptyDict(x) == IF x.null THEN EmptyDict ELSE x
\* `x or ""`
OrEmptyStr(x) == IF x = NoneStr THEN "" ELSE x
\* d.get(key, "")
GetOr(v) == IF v = NoneStr THEN "" ELSE v

RECURSIVE JoinWith(_, _)
\* sep.join(texts)
JoinWith(sep, texts) ==
    IF texts = <<>> THEN ""
    ELSE IF Len(texts) = 1 THEN texts[1]
    ELSE texts[1] \o sep \o JoinWith(sep, Tail(texts))

\* ------------------------------------------------------- the wire: JSON lines
\* A decoded JSON object.  A missing key is NoneStr / JAbsent / NoInput;
\* blocks is message.content, a list of content blocks.
BaseObj ==
    [type |-> NoneStr, session_id |-> NoneStr, result |-> JAbsent,
     content |-> JAbsent, blocks |-> <<>>, tool_name |-> NoneStr,
     tool_input |-> NoInput, tool_result |-> NoneStr,
     request_id |-> NoneStr, error_message |-> NoneStr]

TextBlock(t) == [kind |-> "text", text |-> t]

\* The lines the external process may print, by the fragment that spells them.
JsonTable ==
    [init |-> [BaseObj EXCEPT !.type = "init", !.session_id = "tokA"],
     assistant |-> [BaseObj EXCEPT !.type = "assistant",
                        !.blocks = <<TextBlock("Hi")>>],
     result |-> [BaseObj EXCEPT !.type = "result", !.session_id = "tokB",
                        !.result = JStr("Hi")],
     result_obj |-> [BaseObj EXCEPT !.type = "result",
                        !.result = JDict("Hi")],
     error |-> [BaseObj EXCEPT !.type = "error", !.error_message = "bad"],
     perm_bash |-> [BaseObj EXCEPT !.type = "permission_request",
                        !.session_id = "tokC",
                        !.tool_name = "Bash", !.tool_input = BashInput("rm"),
                        !.request_id = "r1"],
     perm_read |-> [BaseObj EXCEPT !.type = "permission_request",
                        !.tool_name = "Read", !.tool_input = FileInput("a.txt"),
                        !.request_id = "r2"],
     perm_write |-> [BaseObj EXCEPT !.type = "permission_request",
                        !.tool_name = "Write", !.tool_input = FileInput("b.txt"),
                        !.request_id = "r4"],
     perm_edit |-> [BaseObj EXCEPT !.type = "permission_request",
                        !.tool_name = "Edit", !.request_id = "r5"],
     perm_other |-> [BaseObj EXCEPT !.type = "permission_request",
                        !.tool_name = "WebFetch", !.tool_input = EmptyDict],
     perm_anon |-> [BaseObj EXCEPT !.type = "permission_request",
                        !.request_id = "r3"],
     tool_use |-> [BaseObj EXCEPT !.type = "tool_use", !.tool_name = "Bash",
                        !.tool_input = BashInput("ls")],
     tool_use_anon |-> [BaseObj EXCEPT !.type = "tool_use"],
     tool_result |-> [BaseObj EXCEPT !.type = "tool_result", !.tool_name = "Bash",
                        !.tool_result = "ok"],
     tool_result_anon |-> [BaseObj EXCEPT !.type = "tool_result"],
     assistant_empty |-> [BaseObj EXCEPT !.type = "assistant"],
     result_empty |-> [BaseObj EXCEPT !.type = "result", !.session_id = "tokD",
                        !.result = JStr("")],
     result_obj_empty |-> [BaseObj EXCEPT !.type = "result", !.session_id = "tokE",
                        !.result = JDict("")],
     system |-> [BaseObj EXCEPT !.type = "system"]]

LineNames == DOMAIN JsonTable

\* Fragments of output besides whole object lines: the two halves of the empty
\* object {}, a JSON number, and text that is no JSON.
OpenBrace == "{"
CloseBrace == "}"
Scalars == {"5"}
PlainText == {"oops"}

RECURSIVE Unspaced(_)
\* a line without its inner blanks (json.loads skips blanks between tokens)
Unspaced(line) ==
    IF line = <<>> THEN <<>>
    ELSE IF Head(line) = WS THEN Unspaced(Tail(line))
    ELSE <<Head(line)>> \o Unspaced(Tail(line))

\* json.loads(line) succeeds and gives a dict
IsObject(line) ==
    \/ Len(line) = 1 /\ line[1] \in LineNames
    \/ Unspaced(line) = <<OpenBrace, CloseBrace>>

\* json.loads(line) succeeds (no JSONDecodeError)
IsJson(line) == IsObject(line) \/ (Len(line) = 1 /\ line[1] \in Scalars)

\* json.loads(line) for a line that spells an object
Loads(line) ==
    IF Len(line) = 1 /\ line[1] \in LineNames THEN JsonTable[line[1]] ELSE BaseObj

\* the chunks readAllStandardOutput() returns in this model: whole lines
Chunks ==
    {<<"init", NL, "assistant", NL, "result", NL, "assistant", NL>>,
     <<"result_obj", NL>>,
     <<"error", NL>>,
     <<"perm_bash", NL>>}

\* ------------------------------------------------------ StreamEvent.from_json
RECURSIVE BlockTexts(_)
BlockTexts(blocks) ==
    IF blocks = <<>> THEN <<>>
    ELSE IF Head(blocks).kind \in {"text", "str"}
         THEN <<Head(blocks).text>> \o BlockTexts(Tail(blocks))
         ELSE BlockTexts(Tail(blocks))

EventType(obj) == IF obj.type = NoneStr THEN "unknown" ELSE obj.type

FromJson(obj) ==
    LET type == EventType(obj)
        base == [type |-> type, content |-> "", session_id |-> obj.session_id,
                 tool_name |-> NoneStr, tool_input |-> NoInput,
                 tool_result |-> NoneStr, permission_request_id |-> NoneStr]
    IN  CASE type \in {"assistant", "user_input"} ->
                [base EXCEPT !.content = JoinWith("\n", BlockTexts(obj.blocks))]
          [] type = "tool_use" ->
                [base EXCEPT !.tool_name = obj.tool_name,
                             !.tool_input = obj.tool_input]
          [] type = "tool_result" ->
                [base EXCEPT !.tool_name = obj.tool_name,
                             !.tool_result = obj.tool_result]
          [] type = "result" ->
                [base EXCEPT !.content = obj.result.text]
          [] type = "error" ->
                [base EXCEPT !.content =
                    IF obj.error_message = NoneStr THEN "str(data)"
                    ELSE obj.error_message]
          [] type = "permission_request" ->
                [base EXCEPT !.tool_name = obj.tool_name,
                             !.tool_input = obj.tool_input,
                             !.permission_request_id = obj.request_id]
          [] OTHER -> base

\* ---------------------------------------------------------- ClaudeResponse
IsResult(obj) == obj.type = "result"

\* ClaudeResponse.content: raw["result"] as it is, else str(raw["content"])
ResponseContent(obj) ==
    IF obj.result.kind # "absent" THEN obj.result
    ELSE IF obj.content.kind # "absent" THEN JStr(obj.content.text)
    ELSE JStr("")

\* ------------------------------------------------------------------- state
VARIABLES
    sessions,             \* SessionManager._sessions: id -> Session
    runners,              \* keys of SessionManager._runners
    runnerObj,            \* the ClaudeRunner objects not yet deleted, by session id
    procs,                \* every QProcess created so far, in creation order
    pending_messages,     \* SessionManager._pending_messages
    pending_permissions,  \* SessionManager._pending_permissions
    timers,               \* pending QTimer.singleShot callbacks per runner
    saved,                \* contents of sessions.json
    emitted,              \* signals emitted by the last step, in order
    lastOp,               \* the call or event the last step handled
    used,                 \* session ids allocated so far (uuid4 never repeats)
    nout,                 \* chunks read from stdout and stderr so far
    asker                 \* per session, the QProcess whose output made the manager
                          \* store the last permission request (0: none)

vars == <<sessions, runners, runnerObj, procs, pending_messages,
          pending_permissions, timers, saved, emitted, lastOp, used, nout, asker>>

\* The part of the state the handlers read and write, as one value.
State ==
    [sessions |-> sessions, runners |-> runners, runnerObj |-> runnerObj,
     procs |-> procs, pending_messages |-> pending_messages,
     pending_permissions |-> pending_permissions, timers |-> timers,
     saved |-> saved, emitted |-> <<>>]

Install(st) ==
    /\ sessions' = st.sessions
    /\ runners' = st.runners
    /\ runnerObj' = st.runnerObj
    /\ procs' = st.procs
    /\ pending_messages' = st.pending_messages
    /\ pending_permissions' = st.pending_permissions
    /\ timers' = st.timers
    /\ saved' = st.saved
    /\ emitted' = st.emitted

Range(f) == {f[x] : x \in DOMAIN f}

\* dict helpers
Put(f, k, v) == [x \in DOMAIN f \cup {k} |-> IF x = k THEN v ELSE f[x]]
Drop(f, k) == [x \in DOMAIN f \ {k} |-> f[x]]

\* Session(worktree_path=...): status IDLE, no messages, no continuation token
NewSession == [status |-> "idle", messages |-> <<>>, claude_session_id |-> NoneStr]

\* ClaudeRunner.__init__
NewRunner ==
    [process |-> 0, output_buffer |-> <<>>, line_buffer |-> <<>>,
     stderr_buffer |-> <<>>, session_id |-> NoneStr, output_format |-> "json",
     events |-> <<>>]

Signal(sig, sid, info) == [sig |-> sig, sid |-> sid, info |-> info]
Emit(st, sig, sid, info) == [st EXCEPT !.emitted = Append(@, Signal(sig, sid, info))]

\* the signals of SessionManager a consumer connects to, scoped by session
ConsumerSignals ==
    {"message_received", "status_changed", "stream_event_received",
     "streaming_text", "tool_use_started", "tool_result_received",
     "permission_requested", "session_updated"}

\* SessionManager._save_sessions: the whole store is rewritten
SaveSessions(st) == [st EXCEPT !.saved = st.sessions]

\* add_message that keeps only the newest message
AddMessage_KeepsNewest(st, s, role, content) ==
    [st EXCEPT !.sessions[s].messages = <<[role |-> role, content |-> content]>>]

\* Session.add_message
AddMessage(st, s, role, content) ==
    [st EXCEPT !.sessions[s].messages =
        Append(@, [role |-> role, content |-> content])]

\* ClaudeRunner.is_running
IsRunningIn(st, s) ==
    /\ st.runnerObj[s].process # 0
    /\ st.procs[st.runnerObj[s].process].state = "Running"

\* ------------------------------------------- SessionManager signal handlers
\* _on_error that records the message and leaves the status as it is
OnError_KeepsStatus(st, s, error) ==
    IF s \notin DOMAIN st.sessions THEN st
    ELSE Emit(AddMessage(st, s, "system", JStr("Error: " \o error)),
              "message_received", s, "system")

\* SessionManager._on_error
OnError(st, s, error) ==
    IF s \notin DOMAIN st.sessions THEN st
    ELSE LET st1 == Emit(AddMessage(st, s, "system", JStr("Error: " \o error)),
                         "message_received", s, "system")
         IN  IF st1.sessions[s].status = "running"
             THEN SaveSessions(Emit([st1 EXCEPT !.sessions[s].status = "idle"],
                                    "status_changed", s, "idle"))
             ELSE st1

\* _on_finished without the status reset
OnFinished_KeepsStatus(st, s) ==
    IF s \notin DOMAIN st.sessions THEN st
    ELSE SaveSessions(Emit(st, "status_changed", s, "idle"))

\* _on_finished resetting every session, not the one of the runner
OnFinished_EverySession(st, s) ==
    IF s \notin DOMAIN st.sessions THEN st
    ELSE SaveSessions(Emit([st EXCEPT !.sessions =
                                [x \in DOMAIN @ |-> [@[x] EXCEPT !.status = "idle"]]],
                           "status_changed", s, "idle"))

\* SessionManager._on_finished
OnFinished(st, s) ==
    IF s \notin DOMAIN st.sessions THEN st
    ELSE SaveSessions(Emit([st EXCEPT !.sessions[s].status = "idle"],
                           "status_changed", s, "idle"))

\* _on_response taking the continuation token from result messages only
OnResponse_TokenFromResultOnly(st, s, obj) ==
    IF s \notin DOMAIN st.sessions THEN st
    ELSE LET st1 == IF TruthyStr(obj.session_id) /\ IsResult(obj)
                    THEN [st EXCEPT !.sessions[s].claude_session_id = obj.session_id]
                    ELSE st
             content == ResponseContent(obj)
             st2 == IF IsResult(obj)
                    THEN SaveSessions(
                           IF Truthy(content)
                           THEN Emit(AddMessage(st1, s, "assistant", content),
                                     "message_received", s, "assistant")
                           ELSE st1)
                    ELSE st1
         IN  Emit(st2, "session_updated", s, "")

\* SessionManager._on_response
OnResponse(st, s, obj) ==
    IF s \notin DOMAIN st.sessions THEN st
    ELSE LET st1 == IF TruthyStr(obj.session_id)
                    THEN [st EXCEPT !.sessions[s].claude_session_id = obj.session_id]
                    ELSE st
             content == ResponseContent(obj)
             st2 == IF IsResult(obj)
                    THEN SaveSessions(
                           IF Truthy(content)
                           THEN Emit(AddMessage(st1, s, "assistant", content),
                                     "message_received", s, "assistant")
                           ELSE st1)
                    ELSE st1
         IN  Emit(st2, "session_updated", s, "")

\* SessionManager._on_stream_event
OnStreamEvent(st, s, event) ==
    IF s \notin DOMAIN st.sessions THEN st
    ELSE LET st1 == Emit(st, "stream_event_received", s, event.type)
         IN  IF event.type = "init" /\ TruthyStr(event.session_id)
             THEN [st1 EXCEPT !.sessions[s].claude_session_id = event.session_id]
             ELSE st1

\* SessionManager._on_assistant_text
OnAssistantText(st, s, text) ==
    IF s \in DOMAIN st.sessions THEN Emit(st, "streaming_text", s, text) ELSE st

\* SessionManager._on_tool_use
OnToolUse(st, s, tool_name) ==
    IF s \in DOMAIN st.sessions THEN Emit(st, "tool_use_started", s, tool_name) ELSE st

\* SessionManager._on_tool_result
OnToolResult(st, s, tool_name) ==
    IF s \in DOMAIN st.sessions THEN Emit(st, "tool_result_received", s, tool_name) ELSE st

\* _on_permission_request that also sets the session back to idle
OnPermissionRequest_MarksIdle(st, s, request_id, tool_name, tool_input) ==
    IF s \notin DOMAIN st.sessions THEN st
    ELSE Emit([st EXCEPT !.sessions[s].status = "idle",
                         !.pending_permissions =
                   Put(@, s, [request_id |-> request_id, tool_name |-> tool_name,
                              tool_input |-> tool_input])],
              "permission_requested", s, tool_name)

\* SessionManager._on_permission_request
OnPermissionRequest(st, s, request_id, tool_name, tool_input) ==
    IF s \notin DOMAIN st.sessions THEN st
    ELSE Emit([st EXCEPT !.pending_permissions =
                   Put(@, s, [request_id |-> request_id, tool_name |-> tool_name,
                              tool_input |-> tool_input])],
              "permission_requested", s, tool_name)

\* ------------------------------------------------------------- ClaudeRunner
IsSpace(x) == x \in {WS, NL}

RECURSIVE StripText(_)
\* str.strip() of text that may hold newlines
StripText(t) ==
    IF t = <<>> THEN t
    ELSE IF IsSpace(Head(t)) THEN StripText(Tail(t))
    ELSE IF IsSpace(t[Len(t)]) THEN StripText(SubSeq(t, 1, Len(t) - 1))
    ELSE t

\* the Python string a sequence of fragments spells
Text(t) == JoinWith("", t)

\* QProcess.ProcessError -> message, ClaudeRunner._on_error
ErrorMessages ==
    [FailedToStart |-> "Failed to start Claude CLI. Is it installed?",
     Crashed |-> "Claude CLI crashed unexpectedly"]

\* ClaudeRunner._on_error
RunnerOnError(st, s, error) ==
    OnError(Emit(st, "runner.error_occurred", s, ErrorMessages[error]),
            s, ErrorMessages[error])

\* ClaudeRunner._handle_json_message
HandleJsonMessage(st, s, obj) ==
    LET st1 == IF obj.session_id # NoneStr
               THEN [st EXCEPT !.runnerObj[s].session_id = obj.session_id]
               ELSE st
    IN  OnResponse(Emit(st1, "runner.response_received", s, EventType(obj)), s, obj)

\* the try block with tool_use_started emitted for every tool_use event
HandleObject_AnyToolUse(st, s, obj) ==
    LET st1 == HandleJsonMessage(st, s, obj)
        event == FromJson(obj)
        st2 == [st1 EXCEPT !.runnerObj[s].events = Append(@, event)]
        st3 == OnStreamEvent(Emit(st2, "runner.stream_event", s, event.type), s, event)
    IN  IF st1.runnerObj[s].output_format # "stream-json" THEN st1
        ELSE IF event.type = "assistant" /\ event.content # ""
          THEN OnAssistantText(Emit(st3, "runner.assistant_text", s, event.content),
                               s, event.content)
        ELSE IF event.type = "tool_use"
          THEN OnToolUse(Emit(st3, "runner.tool_use_started", s, event.tool_name),
                         s, event.tool_name)
        ELSE IF event.type = "tool_result" /\ TruthyStr(event.tool_name)
          THEN OnToolResult(Emit(st3, "runner.tool_result_received", s, event.tool_name),
                            s, event.tool_name)
        ELSE IF event.type = "permission_request" /\ TruthyStr(event.tool_name)
          THEN OnPermissionRequest(
                   Emit(st3, "runner.permission_requested", s, event.tool_name),
                   s, OrEmptyStr(event.permission_request_id), event.tool_name,
                   OrEmptyDict(event.tool_input))
        ELSE st3

\* the body of the try block of _parse_streaming_output for one JSON line
HandleObject(st, s, obj) ==
    LET st1 == HandleJsonMessage(st, s, obj)
        event == FromJson(obj)
        st2 == [st1 EXCEPT !.runnerObj[s].events = Append(@, event)]
        st3 == OnStreamEvent(Emit(st2, "runner.stream_event", s, event.type), s, event)
    IN  IF st1.runnerObj[s].output_format # "stream-json" THEN st1
        ELSE IF event.type = "assistant" /\ event.content # ""
          THEN OnAssistantText(Emit(st3, "runner.assistant_text", s, event.content),
                               s, event.content)
        ELSE IF event.type = "tool_use" /\ TruthyStr(event.tool_name)
          THEN OnToolUse(Emit(st3, "runner.tool_use_started", s, event.tool_name),
                         s, event.tool_name)
        ELSE IF event.type = "tool_result" /\ TruthyStr(event.tool_name)
          THEN OnToolResult(Emit(st3, "runner.tool_result_received", s, event.tool_name),
                            s, event.tool_name)
        ELSE IF event.type = "permission_request" /\ TruthyStr(event.tool_name)
          THEN OnPermissionRequest(
                   Emit(st3, "runner.permission_requested", s, event.tool_name),
                   s, OrEmptyStr(event.permission_request_id), event.tool_name,
                   OrEmptyDict(event.tool_input))
        ELSE st3

\* json.loads gives a value that is no dict and `"session_id" in obj` raises
\* TypeError, which the except clause for JSONDecodeError does not catch
Raises(line) == IsJson(line) /\ ~IsObject(line)

\* one complete, stripped, non-empty line whose handling does not raise
HandleLine(st, s, line) ==
    IF IsJson(line) THEN HandleObject(st, s, Loads(line))
    ELSE Emit(st, "runner.stream_chunk", s, Text(line))

FirstNL(buf) == CHOOSE i \in 1..Len(buf) : buf[i] = NL /\ \A j \in 1..(i - 1) : buf[j] # NL
HasNL(buf) == \E i \in 1..Len(buf) : buf[i] = NL

RECURSIVE ParseLoop(_, _, _)
\* the while loop of _parse_streaming_output and the final buffer update; an
\* exception leaves the method with the line buffer as the write left it
ParseLoop(st, s, buf) ==
    IF ~HasNL(buf) THEN [st EXCEPT !.runnerObj[s].line_buffer = buf]
    ELSE LET i == FirstNL(buf)
             line == StripText(SubSeq(buf, 1, i - 1))
             rest == SubSeq(buf, i + 1, Len(buf))
         IN  IF line = <<>> THEN ParseLoop(st, s, rest)
             ELSE IF Raises(line) THEN st
             ELSE ParseLoop(HandleLine(st, s, line), s, rest)

\* ClaudeRunner._parse_streaming_output
ParseStreamingOutput(st, s, data) ==
    LET st1 == [st EXCEPT !.runnerObj[s].line_buffer = @ \o data]
    IN  ParseLoop(st1, s, st1.runnerObj[s].line_buffer)

RECURSIVE LastJsonLine(_)
\* the last line of the output that json.loads accepts, <<>> if none
LastJsonLine(buf) ==
    IF buf = <<>> THEN <<>>
    ELSE LET k == IF HasNL(buf)
                  THEN CHOOSE i \in 1..Len(buf) :
                         buf[i] = NL /\ \A j \in (i + 1)..Len(buf) : buf[j] # NL
                  ELSE 0
             line == StripText(SubSeq(buf, k + 1, Len(buf)))
         IN  IF IsJson(line) THEN line
             ELSE IF k = 0 THEN <<>>
             ELSE LastJsonLine(SubSeq(buf, 1, k - 1))

\* ClaudeRunner._parse_final_output
ParseFinalOutput(st, s) ==
    LET out == st.runnerObj[s].output_buffer
    IN  IF out = <<>> THEN st
        ELSE IF IsJson(StripText(out)) THEN HandleJsonMessage(st, s, Loads(StripText(out)))
        ELSE IF LastJsonLine(StripText(out)) # <<>>
          THEN HandleJsonMessage(st, s, Loads(LastJsonLine(StripText(out))))
        ELSE st

\* the JSON value _parse_final_output hands to _handle_json_message is no dict
FinalOutputRaises(st, s) ==
    LET out == StripText(st.runnerObj[s].output_buffer)
    IN  /\ out # <<>>
        /\ IF IsJson(out) THEN Raises(out)
           ELSE LastJsonLine(out) # <<>> /\ Raises(LastJsonLine(out))

\* ClaudeRunner._on_stdout, data being what readAllStandardOutput() returns
RunnerOnStdout(st, s, data) ==
    IF st.runnerObj[s].process = 0 THEN st
    ELSE ParseStreamingOutput(
             Emit([st EXCEPT !.runnerObj[s].output_buffer = @ \o data],
                  "runner.output_received", s, Text(data)),
             s, data)

\* ClaudeRunner._on_stderr
RunnerOnStderr(st, s, data) ==
    IF st.runnerObj[s].process = 0 THEN st
    ELSE [st EXCEPT !.runnerObj[s].stderr_buffer = @ \o data]

\* ClaudeRunner._on_finished
RunnerOnFinished(st, s, exit_code) ==
    IF st.runnerObj[s].output_format # "stream-json" /\ FinalOutputRaises(st, s) THEN st
    ELSE
    LET st1 == IF st.runnerObj[s].output_format # "stream-json"
               THEN ParseFinalOutput(st, s) ELSE st
        stderr_content == Text(StripText(st1.runnerObj[s].stderr_buffer))
        st2 == IF exit_code # 0 /\ stderr_content # ""
               THEN OnError(Emit(st1, "runner.error_occurred", s, stderr_content),
                            s, stderr_content)
               ELSE st1
        st3 == OnFinished(Emit(st2, "runner.process_finished", s, ""), s)
    IN  [st3 EXCEPT !.runnerObj[s].process = 0]

\* ClaudeRunner._start_process: a new QProcess, start() leaves it Starting
StartProcess(st, s, args) ==
    Emit([st EXCEPT !.procs = Append(@, [sid |-> s, state |-> "Starting",
                                         signal |-> "none", args |-> args,
                                         err |-> <<>>]),
                    !.runnerObj[s].process = Len(st.procs) + 1],
         "runner.process_started", s, "")

\* ClaudeRunner.send_message that keeps the line buffer and the stderr buffer
RunnerSendMessage_KeepsCarryOver(st, s, message, resume_session, allowed_tools, model) ==
    IF IsRunningIn(st, s)
    THEN OnError(Emit(st, "runner.error_occurred", s, "A command is already running"),
                 s, "A command is already running")
    ELSE StartProcess(
             [st EXCEPT !.runnerObj[s].output_buffer = <<>>,
                        !.runnerObj[s].output_format = "stream-json",
                        !.runnerObj[s].events = <<>>],
             s,
             [output_format |-> "stream-json",
              resume |-> IF TruthyStr(resume_session) THEN resume_session ELSE NoneStr,
              allowed_tools |-> allowed_tools,
              model |-> IF TruthyStr(model) THEN model ELSE NoneStr,
              message |-> message])

\* ClaudeRunner.send_message
RunnerSendMessage(st, s, message, resume_session, allowed_tools, model) ==
    IF IsRunningIn(st, s)
    THEN OnError(Emit(st, "runner.error_occurred", s, "A command is already running"),
                 s, "A command is already running")
    ELSE StartProcess(
             [st EXCEPT !.runnerObj[s].output_buffer = <<>>,
                        !.runnerObj[s].line_buffer = <<>>,
                        !.runnerObj[s].stderr_buffer = <<>>,
                        !.runnerObj[s].output_format = "stream-json",
                        !.runnerObj[s].events = <<>>],
             s,
             [output_format |-> "stream-json",
              resume |-> IF TruthyStr(resume_session) THEN resume_session ELSE NoneStr,
              allowed_tools |-> allowed_tools,
              model |-> IF TruthyStr(model) THEN model ELSE NoneStr,
              message |-> message])

\* ClaudeRunner.cancel: terminate() and a single-shot timer for the kill (a
\* process already sent the kill signal stays killed)
RunnerCancel(st, s) ==
    IF IsRunningIn(st, s)
    THEN [st EXCEPT !.procs[st.runnerObj[s].process].signal =
                        IF @ = "kill" THEN "kill" ELSE "term",
                    !.timers[s] = @ + 1]
    ELSE st

\* ClaudeRunner._force_kill_if_running
ForceKillIfRunning(st, s) ==
    IF IsRunningIn(st, s)
    THEN [st EXCEPT !.procs[st.runnerObj[s].process].signal = "kill"]
    ELSE st

\* ----------------------------------------------------------- SessionManager
\* SessionManager._create_runner
CreateRunner(st, s) ==
    [st EXCEPT !.runnerObj = Put(@, s, NewRunner),
               !.timers[s] = 0,
               !.runners = @ \cup {s}]

\* the f-string of send_message: "@ref" lines, a blank line, the message
FullMessage(message, file_references) ==
    IF file_references # <<>>
    THEN JoinWith("\n", [i \in 1..Len(file_references) |-> "@" \o file_references[i]])
             \o "\n\n" \o message
    ELSE message

\* send_message without the `if runner.is_running: return`
SendMessageOp_NoRunningCheck(st, s, message, file_references, model, allowed_tools, add_user_message) ==
    IF s \notin DOMAIN st.sessions THEN st
    ELSE
    LET st1 == IF s \notin st.runners THEN CreateRunner(st, s) ELSE st
        full_message == FullMessage(message, file_references)
        st2 == [st1 EXCEPT !.pending_messages =
                   Put(@, s, [message |-> message, full_message |-> full_message,
                              file_references |-> file_references, model |-> model])]
        st3 == IF add_user_message
               THEN Emit(AddMessage(st2, s, "user", JStr(message)),
                         "message_received", s, "user")
               ELSE st2
        st4 == Emit([st3 EXCEPT !.sessions[s].status = "running"],
                    "status_changed", s, "running")
    IN  RunnerSendMessage(st4, s, full_message,
                          st4.sessions[s].claude_session_id, allowed_tools, model)

\* send_message that marks the session running before it records the message
SendMessageOp_StatusFirst(st, s, message, file_references, model, allowed_tools, add_user_message) ==
    IF s \notin DOMAIN st.sessions THEN st
    ELSE
    LET st1 == IF s \notin st.runners THEN CreateRunner(st, s) ELSE st
        full_message == FullMessage(message, file_references)
        st2 == [st1 EXCEPT !.pending_messages =
                   Put(@, s, [message |-> message, full_message |-> full_message,
                              file_references |-> file_references, model |-> model])]
        st3 == Emit([st2 EXCEPT !.sessions[s].status = "running"],
                    "status_changed", s, "running")
        st4 == IF add_user_message
               THEN Emit(AddMessage(st3, s, "user", JStr(message)),
                         "message_received", s, "user")
               ELSE st3
    IN  IF IsRunningIn(st1, s) THEN st1
        ELSE RunnerSendMessage(st4, s, full_message,
                               st4.sessions[s].claude_session_id, allowed_tools, model)

\* SessionManager.send_message
SendMessageOp(st, s, message, file_references, model, allowed_tools, add_user_message) ==
    IF s \notin DOMAIN st.sessions THEN st
    ELSE
    LET st1 == IF s \notin st.runners THEN CreateRunner(st, s) ELSE st
        full_message == FullMessage(message, file_references)
        st2 == [st1 EXCEPT !.pending_messages =
                   Put(@, s, [message |-> message, full_message |-> full_message,
                              file_references |-> file_references, model |-> model])]
        st3 == IF add_user_message
               THEN Emit(AddMessage(st2, s, "user", JStr(message)),
                         "message_received", s, "user")
               ELSE st2
        st4 == Emit([st3 EXCEPT !.sessions[s].status = "running"],
                    "status_changed", s, "running")
    IN  IF IsRunningIn(st1, s) THEN st1
        ELSE RunnerSendMessage(st4, s, full_message,
                               st4.sessions[s].claude_session_id, allowed_tools, model)

\* SessionManager.cancel_request
CancelRequestOp(st, s) ==
    IF s \in st.runners THEN RunnerCancel(st, s) ELSE st

\* SessionManager.remove_session; deleteLater() leaves the runner object alive
\* until the event loop deletes it (RunnerDeleted)
RemoveSessionOp(st, s) ==
    IF s \notin DOMAIN st.sessions THEN st
    ELSE LET st1 == IF s \in st.runners /\ IsRunningIn(st, s)
                    THEN RunnerCancel(st, s) ELSE st
             st2 == [st1 EXCEPT !.runners = @ \ {s}]
             st3 == SaveSessions([st2 EXCEPT !.sessions = Drop(@, s)])
         IN  Emit(st3, "session_removed", s, "")

\* The fields the Session dataclass accepts as constructor keywords.
SessionFields ==
    {"id", "worktree_path", "name", "created_at", "messages", "status",
     "claude_session_id"}

\* The keywords create_session passes to the Session constructor.
CreateSessionKeywords == {"worktree_path", "base_branch"}

\* SessionManager.create_session: the constructor call comes first and raises
\* TypeError on a keyword the dataclass does not declare, before the session
\* is stored, the runner is created, the file is saved or the signal is sent.
CreateSessionOp(st, s) ==
    IF ~(CreateSessionKeywords \subseteq SessionFields) THEN st
    ELSE Emit(SaveSessions(CreateRunner([st EXCEPT !.sessions = Put(@, s, NewSession)], s)),
              "session_created", s, "")

\* a pattern that grants the whole tool whatever the tool
ToolPattern_WholeTool(perm) == perm.tool_name

\* a pattern that limits Bash to the command and grants the file tools whole
ToolPattern_FileToolsWhole(perm) ==
    IF perm.tool_name = "Bash"
      THEN "Bash(" \o GetOr(perm.tool_input.command) \o ")"
    ELSE perm.tool_name

\* the tool pattern respond_permission builds for --allowedTools
ToolPattern(perm) ==
    IF perm.tool_name = "Bash"
      THEN "Bash(" \o GetOr(perm.tool_input.command) \o ")"
    ELSE IF perm.tool_name \in {"Read", "Write", "Edit"}
      THEN perm.tool_name \o "(" \o GetOr(perm.tool_input.file_path) \o ")"
    ELSE perm.tool_name

\* respond_permission replaying the turn as a new user message
RespondPermissionOp_RecordsUser(st, s, accept) ==
    IF s \notin DOMAIN st.pending_permissions THEN st
    ELSE LET perm == st.pending_permissions[s]
             st1 == [st EXCEPT !.pending_permissions = Drop(@, s)]
         IN  IF ~accept THEN st1
             ELSE IF s \in DOMAIN st1.pending_messages
               THEN LET pending == st1.pending_messages[s]
                    IN  SendMessageOp(st1, s, pending.message, pending.file_references,
                                      pending.model, <<ToolPattern(perm)>>, TRUE)
             ELSE st1

\* respond_permission reading the permission without popping it
RespondPermissionOp_KeepsPermission(st, s, accept) ==
    IF s \notin DOMAIN st.pending_permissions THEN st
    ELSE LET perm == st.pending_permissions[s]
         IN  IF ~accept THEN st
             ELSE IF s \in DOMAIN st.pending_messages
               THEN LET pending == st.pending_messages[s]
                    IN  SendMessageOp(st, s, pending.message, pending.file_references,
                                      pending.model, <<ToolPattern(perm)>>, FALSE)
             ELSE st

\* respond_permission that replays the stored turn also when no permission
\* is stored
RespondPermissionOp_NoEarlyReturn(st, s, accept) ==
    LET st1 == [st EXCEPT !.pending_permissions = Drop(@, s)]
        tools == IF s \in DOMAIN st.pending_permissions
                 THEN <<ToolPattern(st.pending_permissions[s])>> ELSE <<>>
    IN  IF ~accept THEN st1
        ELSE IF s \in DOMAIN st1.pending_messages
          THEN LET pending == st1.pending_messages[s]
               IN  SendMessageOp(st1, s, pending.message, pending.file_references,
                                 pending.model, tools, FALSE)
        ELSE st1

\* SessionManager.respond_permission
RespondPermissionOp(st, s, accept) ==
    IF s \notin DOMAIN st.pending_permissions THEN st
    ELSE LET perm == st.pending_permissions[s]
             st1 == [st EXCEPT !.pending_permissions = Drop(@, s)]
         IN  IF ~accept THEN st1
             ELSE IF s \in DOMAIN st1.pending_messages
               THEN LET pending == st1.pending_messages[s]
                    IN  SendMessageOp(st1, s, pending.message, pending.file_references,
                                      pending.model, <<ToolPattern(perm)>>, FALSE)
             ELSE st1

\* --------------------------------------------------------------- the steps
NoPerm == [request_id |-> NoneStr, tool_name |-> NoneStr, tool_input |-> NoInput]

\* what the last step was: the call or event, its session, the QProcess it
\* concerns (0: none), the accept flag, the permission it consumed, the
\* QProcess it created (0: none), and the exit code of a finished step
Op(op, sid, pid, accept, perm, st) ==
    [op |-> op, sid |-> sid, pid |-> pid, accept |-> accept, perm |-> perm,
     launched |-> IF Len(st.procs) > Len(procs) THEN Len(st.procs) ELSE 0,
     exit_code |-> 0]

\* the turns the user submits (message, file references, model), in this
\* order and cyclically; the n-th QProcess is launched for the n-th turn
UserTurns ==
    <<[message |-> "m1", file_references |-> <<"f.py">>, model |-> "opus"],
      [message |-> "m2", file_references |-> <<>>, model |-> NoneStr]>>
NextTurn == UserTurns[(Len(procs) % Len(UserTurns)) + 1]

\* the first non-empty chunk of stderr
StderrChunks == {<<"boom", NL>>}

\* how a running process ends: exit code, and whether Qt reports CrashExit
Outcomes ==
    {[exit_code |-> 0, crashed |-> FALSE], [exit_code |-> 1, crashed |-> FALSE],
     [exit_code |-> 9, crashed |-> TRUE]}

\* _load_sessions: the sessions of sessions.json, each IDLE, none with a runner
Init ==
    \E loaded \in SUBSET LoadableIds :
        /\ sessions = [s \in loaded |-> NewSession]
        /\ runners = {}
        /\ runnerObj = [s \in {} |-> NewRunner]
        /\ procs = <<>>
        /\ pending_messages = [s \in {} |-> 0]
        /\ pending_permissions = [s \in {} |-> NoPerm]
        /\ timers = [s \in SessionIds |-> 0]
        /\ saved = [s \in loaded |-> NewSession]
        /\ emitted = <<>>
        /\ lastOp = [op |-> "init", sid |-> "", pid |-> 0, accept |-> FALSE,
                     perm |-> NoPerm, launched |-> 0, exit_code |-> 0]
        /\ used = loaded
        /\ nout = 0
        /\ asker = [s \in SessionIds |-> 0]

CreateSession(s) ==
    /\ s \notin used
    /\ LET st == CreateSessionOp(State, s)
       IN  /\ Install(st)
           /\ lastOp' = Op("create_session", s, 0, FALSE, NoPerm, st)
           /\ used' = used \cup (DOMAIN st.sessions)
    /\ UNCHANGED <<nout, asker>>

RemoveSession(s) ==
    /\ s \in DOMAIN sessions
    /\ LET st == RemoveSessionOp(State, s)
       IN  Install(st) /\ lastOp' = Op("remove_session", s, 0, FALSE, NoPerm, st)
    /\ UNCHANGED <<used, nout, asker>>

SendMessage(s, turn) ==
    /\ s \in used
    /\ turn = NextTurn
    /\ LET st == SendMessageOp(State, s, turn.message, turn.file_references,
                               turn.model, <<>>, TRUE)
       IN  /\ Len(st.procs) <= MaxProcs
           /\ Install(st)
           /\ lastOp' = Op("send_message", s, 0, FALSE, NoPerm, st)
    /\ UNCHANGED <<used, nout, asker>>

CancelRequest(s) ==
    /\ s \in used
    /\ timers[s] < MaxTimers
    /\ LET st == CancelRequestOp(State, s)
       IN  Install(st) /\ lastOp' = Op("cancel_request", s, 0, FALSE, NoPerm, st)
    /\ UNCHANGED <<used, nout, asker>>

RespondPermission(s, accept) ==
    /\ s \in used
    /\ LET st == RespondPermissionOp(State, s, accept)
           perm == IF s \in DOMAIN pending_permissions
                   THEN pending_permissions[s] ELSE NoPerm
       IN  /\ Len(st.procs) <= MaxProcs
           /\ Install(st)
           /\ lastOp' = Op("respond_permission", s, 0, accept, perm, st)
    /\ UNCHANGED <<used, nout, asker>>

\* the QProcess objects of runner s that are not NotRunning
Live(p) == procs[p].state \in {"Starting", "Running"}
Pids == 1..Len(procs)

\* QProcess: the child started; started() has no slot connected
ProcStarted(p) ==
    /\ procs[p].state = "Starting"
    /\ LET st == [State EXCEPT !.procs[p].state = "Running"]
       IN  Install(st) /\ lastOp' = Op("started", procs[p].sid, p, FALSE, NoPerm, st)
    /\ UNCHANGED <<used, nout, asker>>

\* QProcess: errorOccurred(FailedToStart); finished() is not emitted
ProcStartFailed(p) ==
    /\ procs[p].state = "Starting"
    /\ LET s == procs[p].sid
           st == RunnerOnError([State EXCEPT !.procs[p].state = "NotRunning"],
                               s, "FailedToStart")
       IN  Install(st) /\ lastOp' = Op("start_failed", s, p, FALSE, NoPerm, st)
    /\ UNCHANGED <<used, nout, asker>>

\* the asker of session s after a read of the output of QProcess p: p if the
\* read made the manager store a permission request
AskerAfter(st, s, p) ==
    IF \E i \in 1..Len(st.emitted) :
           st.emitted[i].sig = "permission_requested" /\ st.emitted[i].sid = s
    THEN [asker EXCEPT ![s] = p]
    ELSE asker

\* QProcess p: readyReadStandardOutput.  The slot reads the channel of the
\* runner's current QProcess, which holds the chunk only if that is p.
ProcStdout(p, chunk) ==
    /\ procs[p].state = "Running"
    /\ nout < MaxOut
    /\ nout' = nout + 1
    /\ LET s == procs[p].sid
           data == IF runnerObj[s].process = p THEN chunk ELSE <<>>
           st == RunnerOnStdout(State, s, data)
       IN  /\ Install(st) /\ lastOp' = Op("stdout", s, p, FALSE, NoPerm, st)
           /\ asker' = AskerAfter(st, s, p)
    /\ UNCHANGED used

\* QProcess p: the child wrote chunk to its stderr, readyReadStandardError.
\* The slot reads the channel of the runner's current QProcess.
ProcStderr(p, chunk) ==
    /\ procs[p].state = "Running"
    /\ nout < MaxOut
    /\ nout' = nout + 1
    /\ LET s == procs[p].sid
           data == IF runnerObj[s].process = p THEN chunk ELSE <<>>
           st == RunnerOnStderr([State EXCEPT !.procs[p].err = @ \o chunk], s, data)
       IN  Install(st) /\ lastOp' = Op("stderr", s, p, FALSE, NoPerm, st)
    /\ UNCHANGED <<used, asker>>

\* QProcess p: the child is gone; errorOccurred(Crashed) first if it crashed,
\* then finished(exit_code, exit_status)
ProcFinished(p, outcome) ==
    /\ procs[p].state = "Running"
    /\ LET s == procs[p].sid
           st0 == [State EXCEPT !.procs[p].state = "NotRunning"]
           st1 == IF outcome.crashed THEN RunnerOnError(st0, s, "Crashed") ELSE st0
           st == RunnerOnFinished(st1, s, outcome.exit_code)
       IN  /\ Install(st)
           /\ lastOp' = [Op("finished", s, p, FALSE, NoPerm, st)
                            EXCEPT !.exit_code = outcome.exit_code]
    /\ UNCHANGED <<used, nout, asker>>

\* the single-shot timer of cancel() fires
TimerFired(s) ==
    /\ s \in DOMAIN runnerObj
    /\ timers[s] > 0
    /\ LET st == ForceKillIfRunning([State EXCEPT !.timers[s] = @ - 1], s)
       IN  Install(st) /\ lastOp' = Op("timer", s, 0, FALSE, NoPerm, st)
    /\ UNCHANGED <<used, nout, asker>>

\* deleteLater(): the runner is deleted; ~QProcess kills its children and
\* the runner's timers and connections go with it
RunnerDeleted(s) ==
    /\ s \in DOMAIN runnerObj \ runners
    /\ LET st == [State EXCEPT
                     !.runnerObj = Drop(@, s),
                     !.timers[s] = 0,
                     !.procs = [p \in DOMAIN @ |->
                                  IF @[p].sid = s /\ @[p].state # "NotRunning"
                                  THEN [@[p] EXCEPT !.state = "NotRunning",
                                                    !.signal = "kill"]
                                  ELSE @[p]]]
       IN  Install(st) /\ lastOp' = Op("runner_deleted", s, 0, FALSE, NoPerm, st)
    /\ UNCHANGED <<used, nout, asker>>

Next ==
    \/ \E s \in SessionIds : CreateSession(s)
    \/ \E s \in SessionIds : RemoveSession(s)
    \/ \E s \in SessionIds, turn \in Range(UserTurns) : SendMessage(s, turn)
    \/ \E s \in SessionIds : CancelRequest(s)
    \/ \E s \in SessionIds, accept \in BOOLEAN : RespondPermission(s, accept)
    \/ \E p \in Pids : ProcStarted(p)
    \/ \E p \in Pids : ProcStartFailed(p)
    \/ \E p \in Pids, chunk \in Chunks : ProcStdout(p, chunk)
    \/ \E p \in Pids, chunk \in StderrChunks : ProcStderr(p, chunk)
    \/ \E p \in Pids, outcome \in Outcomes : ProcFinished(p, outcome)
    \/ \E s \in SessionIds : TimerFired(s)
    \/ \E s \in SessionIds : RunnerDeleted(s)

Spec == Init /\ [][Next]_vars

\* the process events end: every QProcess that is Starting starts or fails to
\* start, and every running one exits (the event loop delivers the signal)
FairSpec ==
    /\ Spec
    /\ WF_vars(\E p \in Pids : ProcStarted(p) \/ ProcStartFailed(p))
    /\ WF_vars(\E p \in Pids, outcome \in Outcomes : ProcFinished(p, outcome))

\* the single-shot timers fire, the deferred deletion of a runner is carried
\* out, and a process sent the kill signal exits; a process asked to
\* terminate may ignore it
CancelSpec ==
    /\ Spec
    /\ WF_vars(\E s \in SessionIds : TimerFired(s))
    /\ WF_vars(\E s \in SessionIds : RunnerDeleted(s))
    /\ WF_vars(\E p \in Pids, outcome \in Outcomes :
                  procs[p].signal = "kill" /\ ProcFinished(p, outcome))

\* ------------------------------------------------------------ two sessions
\* The same manager with two sessions loaded from sessions.json.
PairIds == {"s1", "s2"}

PairInit ==
    /\ sessions = [s \in PairIds |-> NewSession]
    /\ runners = {}
    /\ runnerObj = [s \in {} |-> NewRunner]
    /\ procs = <<>>
    /\ pending_messages = [s \in {} |-> 0]
    /\ pending_permissions = [s \in {} |-> NoPerm]
    /\ timers = [s \in PairIds |-> 0]
    /\ saved = [s \in PairIds |-> NewSession]
    /\ emitted = <<>>
    /\ lastOp = [op |-> "init", sid |-> "", pid |-> 0, accept |-> FALSE,
                 perm |-> NoPerm, launched |-> 0, exit_code |-> 0]
    /\ used = PairIds
    /\ nout = 0
    /\ asker = [s \in PairIds |-> 0]

PairNext ==
    \/ \E s \in PairIds : RemoveSession(s)
    \/ \E s \in PairIds, turn \in Range(UserTurns) : SendMessage(s, turn)
    \/ \E s \in PairIds : CancelRequest(s)
    \/ \E s \in PairIds, accept \in BOOLEAN : RespondPermission(s, accept)
    \/ \E p \in Pids : ProcStarted(p)
    \/ \E p \in Pids : ProcStartFailed(p)
    \/ \E p \in Pids, chunk \in Chunks : ProcStdout(p, chunk)
    \/ \E p \in Pids, chunk \in StderrChunks : ProcStderr(p, chunk)
    \/ \E p \in Pids, outcome \in Outcomes : ProcFinished(p, outcome)
    \/ \E s \in PairIds : TimerFired(s)
    \/ \E s \in PairIds : RunnerDeleted(s)

PairSpec == PairInit /\ [][PairNext]_vars

\* ------------------------------------------------- turn after turn
\* a read of stdout that ends in the middle of a line
PartialChunks == {<<"result">>}

TurnsNext ==
    \/ \E s \in SessionIds, turn \in Range(UserTurns) : SendMessage(s, turn)
    \/ \E s \in SessionIds, accept \in BOOLEAN : RespondPermission(s, accept)
    \/ \E p \in Pids : ProcStarted(p)
    \/ \E p \in Pids, chunk \in Chunks \cup PartialChunks : ProcStdout(p, chunk)
    \/ \E p \in Pids, chunk \in StderrChunks : ProcStderr(p, chunk)
    \/ \E p \in Pids, outcome \in Outcomes : ProcFinished(p, outcome)

TurnsSpec == Init /\ [][TurnsNext]_vars

\* ------------------------------------------- two turns and a replay
\* send_message and respond_permission with room for a third QProcess
TurnSend(s, turn) ==
    /\ s \in used
    /\ turn = NextTurn
    /\ LET st == SendMessageOp(State, s, turn.message, turn.file_references,
                               turn.model, <<>>, TRUE)
       IN  /\ Len(st.procs) <= MaxTurns
           /\ Install(st)
           /\ lastOp' = Op("send_message", s, 0, FALSE, NoPerm, st)
    /\ UNCHANGED <<used, nout, asker>>

TurnRespond(s, accept) ==
    /\ s \in used
    /\ LET st == RespondPermissionOp(State, s, accept)
           perm == IF s \in DOMAIN pending_permissions
                   THEN pending_permissions[s] ELSE NoPerm
       IN  /\ Len(st.procs) <= MaxTurns
           /\ Install(st)
           /\ lastOp' = Op("respond_permission", s, 0, accept, perm, st)
    /\ UNCHANGED <<used, nout, asker>>

ReplayNext ==
    \/ \E s \in SessionIds, turn \in Range(UserTurns) : TurnSend(s, turn)
    \/ \E s \in SessionIds, accept \in BOOLEAN : TurnRespond(s, accept)
    \/ \E p \in Pids : ProcStarted(p)
    \/ \E p \in Pids, chunk \in Chunks : ProcStdout(p, chunk)
    \/ \E p \in Pids, outcome \in Outcomes : ProcFinished(p, outcome)

ReplaySpec == Init /\ [][ReplayNext]_vars

\* ------------------------------------------- one invocation, any chunking
\* The output of one process, read in every possible chunking: the fragments
\* a chunk is made of, and the state in which the first chunk arrives (a
\* loaded session, one accepted send_message, the QProcess started).
Frags == {"result", OpenBrace, CloseBrace, NL, WS} \cup Scalars \cup PlainText

FeedSid == "s1"

FeedChunks(n) == UNION {[1..k -> Frags] : k \in 1..n}

FeedStart ==
    LET st0 == [sessions |-> [s \in {FeedSid} |-> NewSession],
                runners |-> {},
                runnerObj |-> [s \in {} |-> NewRunner],
                procs |-> <<>>,
                pending_messages |-> [s \in {} |-> 0],
                pending_permissions |-> [s \in {} |-> NoPerm],
                timers |-> [s \in SessionIds |-> 0],
                saved |-> [s \in {FeedSid} |-> NewSession],
                emitted |-> <<>>]
        turn == UserTurns[2]
        st1 == SendMessageOp(st0, FeedSid, turn.message, turn.file_references,
                             turn.model, <<>>, TRUE)
    IN  [st1 EXCEPT !.procs[1].state = "Running", !.emitted = <<>>]

FeedInit ==
    /\ sessions = FeedStart.sessions
    /\ runners = FeedStart.runners
    /\ runnerObj = FeedStart.runnerObj
    /\ procs = FeedStart.procs
    /\ pending_messages = FeedStart.pending_messages
    /\ pending_permissions = FeedStart.pending_permissions
    /\ timers = FeedStart.timers
    /\ saved = FeedStart.saved
    /\ emitted = <<>>
    /\ lastOp = [op |-> "started", sid |-> FeedSid, pid |-> 1, accept |-> FALSE,
                 perm |-> NoPerm, launched |-> 0, exit_code |-> 0]
    /\ used = {FeedSid}
    /\ nout = 0
    /\ asker = [s \in SessionIds |-> 0]

\* the signals kept in the log of the invocation: all but the echo of the data
IsLogged(e) == e.sig # "runner.output_received"

\* readyReadStandardOutput with the next chunk; in this specification the
\* signals emitted are logged over the whole invocation
FeedStdout(chunk) ==
    /\ procs[1].state = "Running"
    /\ LET st == RunnerOnStdout([State EXCEPT !.emitted = emitted], FeedSid, chunk)
       IN  /\ Install([st EXCEPT !.emitted = SelectSeq(@, IsLogged)])
           /\ lastOp' = Op("stdout", FeedSid, 1, FALSE, NoPerm, st)
           /\ asker' = AskerAfter(st, FeedSid, 1)
    /\ UNCHANGED <<used, nout>>

\* finished(exit_code, exit_status), after errorOccurred(Crashed) on a crash
FeedFinished(outcome) ==
    /\ procs[1].state = "Running"
    /\ LET st0 == [State EXCEPT !.procs[1].state = "NotRunning", !.emitted = emitted]
           st1 == IF outcome.crashed THEN RunnerOnError(st0, FeedSid, "Crashed") ELSE st0
           st == RunnerOnFinished(st1, FeedSid, outcome.exit_code)
       IN  /\ Install(st)
           /\ lastOp' = [Op("finished", FeedSid, 1, FALSE, NoPerm, st)
                            EXCEPT !.exit_code = outcome.exit_code]
    /\ UNCHANGED <<used, nout, asker>>

FeedNext ==
    \/ \E chunk \in FeedChunks(MaxFeed - Len(runnerObj[FeedSid].output_buffer)) :
          FeedStdout(chunk)
    \/ \E outcome \in Outcomes : FeedFinished(outcome)

FeedSpec == FeedInit /\ [][FeedNext]_vars

\* ------------------------------------- one session, whole lines of every kind
\* readyReadStandardOutput of QProcess p with one complete line; the slot reads
\* the channel of the runner's current QProcess
LineStdout(p, name) ==
    /\ procs[p].state = "Running"
    /\ Len(runnerObj[FeedSid].output_buffer) < 2 * MaxLines
    /\ LET data == IF runnerObj[FeedSid].process = p THEN <<name, NL>> ELSE <<>>
           st == RunnerOnStdout(State, FeedSid, data)
       IN  /\ Install(st) /\ lastOp' = Op("stdout", FeedSid, p, FALSE, NoPerm, st)
           /\ asker' = AskerAfter(st, FeedSid, p)
    /\ UNCHANGED <<used, nout>>

LineNext ==
    \/ \E p \in Pids, name \in LineNames : LineStdout(p, name)
    \/ \E p \in Pids : ProcStarted(p)
    \/ \E p \in Pids, outcome \in Outcomes : ProcFinished(p, outcome)
    \/ \E accept \in BOOLEAN : RespondPermission(FeedSid, accept)

LineSpec == FeedInit /\ [][LineNext]_vars

\* ------------------------------------------------------------------ claims
IsRunning(s) == s \in DOMAIN runnerObj /\ IsRunningIn(State, s)
LiveOf(s) == {p \in Pids : procs[p].sid = s /\ Live(p)}
Exists(s) == s \in DOMAIN sessions
StatusRunning(s) == Exists(s) /\ sessions[s].status = "running"

\* the messages, and the decoded events, the step appended for session s
NewMessages(s) ==
    SubSeq(sessions'[s].messages, Len(sessions[s].messages) + 1,
           Len(sessions'[s].messages))
NewEvents(s) ==
    SubSeq(runnerObj'[s].events, Len(runnerObj[s].events) + 1,
           Len(runnerObj'[s].events))
StdoutStep(s) ==
    /\ lastOp'.op = "stdout" /\ lastOp'.sid = s
    /\ Exists(s) /\ s \in DOMAIN runnerObj /\ runnerObj[s].process = lastOp'.pid
IsResultText(e) == e.type = "result" /\ e.content # ""
AssistantMessage(e) == [role |-> "assistant", content |-> JStr(e.content)]

\* C1: in every reachable state each session has at most one QProcess that
\* has been started and has not yet exited or failed to start.
C1_AtMostOneInFlight == \A s \in SessionIds : Cardinality(LiveOf(s)) <= 1

C3_ResultRecordedOnce ==
    [][\A s \in SessionIds :
          StdoutStep(s) =>
              /\ Len(NewMessages(s)) = Len(SelectSeq(NewEvents(s), IsResultText))
              /\ \A i \in 1..Len(NewMessages(s)) :
                    NewMessages(s)[i] =
                        AssistantMessage(SelectSeq(NewEvents(s), IsResultText)[i])]_vars

\* C4: an error event decoded from stdout while the session is running sets
\* the status to idle and appends exactly one system message.
C4_ErrorEventResetsStatus ==
    [][\A s \in SessionIds :
          (/\ StdoutStep(s)
           /\ sessions[s].status = "running"
           /\ \E i \in 1..Len(NewEvents(s)) : NewEvents(s)[i].type = "error")
              => /\ sessions'[s].status = "idle"
                 /\ Len(NewMessages(s)) = 1
                 /\ NewMessages(s)[1].role = "system"]_vars

\* C5: the process launched by an accepted permission for Bash with command C
\* has the allowlist <<"Bash(C)">>.
C5_ReplayAllowsExactlyTheCommand ==
    (/\ lastOp.op = "respond_permission" /\ lastOp.accept
     /\ lastOp.launched # 0
     /\ lastOp.perm.tool_name = "Bash"
     /\ lastOp.perm.tool_input.command # NoneStr)
        => procs[lastOp.launched].args.allowed_tools =
               <<"Bash(" \o lastOp.perm.tool_input.command \o ")">>

C5_Witness ==
    /\ lastOp.op = "respond_permission" /\ lastOp.accept
    /\ lastOp.launched # 0
    /\ lastOp.perm.tool_name = "Bash"
    /\ lastOp.perm.tool_input.command = "rm"

\* C6: the process launched by an accepted permission gets the expanded
\* message and the model stored in the pending turn, which are those of an
\* earlier invocation, and the step leaves the history as it was.
C6_ReplayIsTheStoredTurn ==
    [][\A s \in SessionIds :
          (lastOp'.op = "respond_permission" /\ lastOp'.sid = s /\ lastOp'.launched # 0)
              => LET new == procs'[lastOp'.launched].args
                     pending == pending_messages[s]
                 IN  /\ new.message = pending.full_message
                     /\ new.model = pending.model
                     /\ \E q \in Pids : /\ procs[q].sid = s
                                        /\ procs[q].args.message = new.message
                                        /\ procs[q].args.model = new.model
                     /\ sessions'[s].messages = sessions[s].messages]_vars

C6_Witness ==
    /\ lastOp.op = "respond_permission" /\ lastOp.launched # 0
    /\ pending_messages[lastOp.sid].file_references # <<>>
    /\ procs[lastOp.launched].args.message = "@f.py\n\nm1"
    /\ sessions[lastOp.sid].messages # <<>>

\* C7: a rejected permission is removed, no process is created and the
\* sessions (history, status) stay as they were.
C7_RejectOnlyClears ==
    [][\A s \in SessionIds :
          (lastOp'.op = "respond_permission" /\ lastOp'.sid = s /\ ~lastOp'.accept)
              => /\ s \notin DOMAIN pending_permissions'
                 /\ procs' = procs
                 /\ sessions' = sessions]_vars

C7_Witness ==
    /\ lastOp.op = "respond_permission" /\ ~lastOp.accept
    /\ lastOp.perm.tool_name = "Bash"
    /\ lastOp.sid \notin DOMAIN pending_permissions

\* C8: remove_session sends terminate to every live QProcess of the session in
\* the step that deletes the record, and no step emits a session-scoped
\* consumer signal for a session that is not in the session map.
C8_RemoveCancelsFirst ==
    /\ [][\A s \in SessionIds :
             (lastOp'.op = "remove_session" /\ lastOp'.sid = s /\ Exists(s))
                 => \A p \in LiveOf(s) : procs'[p].signal # "none"]_vars
    /\ [](\A i \in 1..Len(emitted) :
             emitted[i].sig \in ConsumerSignals => Exists(emitted[i].sid))

\* C9: the step in which a QProcess ends (finished, or failed to start) leaves
\* its session idle; a session is running only while one of its QProcess
\* objects is live; and a running session eventually stops being running.
C9_NeverStuckRunning ==
    /\ [][\A s \in SessionIds :
             (lastOp'.op \in {"finished", "start_failed"} /\ lastOp'.sid = s
              /\ s \in DOMAIN sessions')
                 => sessions'[s].status = "idle"]_vars
    /\ [](\A s \in SessionIds : StatusRunning(s) => LiveOf(s) # {})
    /\ \A s \in SessionIds : StatusRunning(s) ~> ~StatusRunning(s)

C9_Witness ==
    /\ lastOp.op = "finished"
    /\ Exists(lastOp.sid) /\ sessions[lastOp.sid].status = "idle"
    /\ procs[lastOp.pid].signal = "kill"
    /\ LiveOf(lastOp.sid) = {}

\* C10: the step in which a QProcess fails to start appends one system message
\* to the history, leaves the session idle and leaves the runner not running,
\* so that the next send_message is accepted.
C10_StartFailureRecovers ==
    [][\A s \in SessionIds :
          (lastOp'.op = "start_failed" /\ lastOp'.sid = s /\ Exists(s))
              => /\ Len(NewMessages(s)) = 1
                 /\ NewMessages(s)[1] =
                       [role |-> "system",
                        content |-> JStr("Error: " \o ErrorMessages["FailedToStart"])]
                 /\ sessions'[s].status = "idle"
                 /\ ~IsRunningIn([runnerObj |-> runnerObj', procs |-> procs'], s)]_vars

\* the runner of the invocation whose output is read in every chunking, and
\* the state had all of its output so far arrived as one chunk
FeedRunner == runnerObj[FeedSid]
WholeFeed == RunnerOnStdout(FeedStart, FeedSid, FeedRunner.output_buffer)

\* the signals that tell a complete line was handled, raw text or JSON
IsLineSignal(e) == e.sig \in {"runner.stream_chunk", "runner.response_received"}

\* C11: however the output read so far was split into chunks, the lines
\* handled, in order, and the carry-over left in the line buffer are those of
\* reading the same output as one chunk.
C11_ChunkBoundaryIndependence ==
    FeedRunner.output_buffer # <<>> =>
        /\ SelectSeq(emitted, IsLineSignal) = SelectSeq(WholeFeed.emitted, IsLineSignal)
        /\ FeedRunner.line_buffer = WholeFeed.runnerObj[FeedSid].line_buffer

RECURSIVE CompleteLines(_)
\* the newline-terminated lines of a text, trimmed, the empty ones left out
CompleteLines(buf) ==
    IF ~HasNL(buf) THEN <<>>
    ELSE LET i == FirstNL(buf)
             line == StripText(SubSeq(buf, 1, i - 1))
             rest == CompleteLines(SubSeq(buf, i + 1, Len(buf)))
         IN  IF line = <<>> THEN rest ELSE <<line>> \o rest

IsRawLine(line) == ~IsJson(line)
IsJsonLine(line) == IsJson(line)
IsStreamChunk(e) == e.sig = "runner.stream_chunk"

\* the complete lines printed so far that are no JSON, and those that are
RawLinesSoFar == SelectSeq(CompleteLines(FeedRunner.output_buffer), IsRawLine)
JsonLinesSoFar == SelectSeq(CompleteLines(FeedRunner.output_buffer), IsJsonLine)

\* C12: the texts emitted on stream_chunk over the invocation are the complete
\* non-empty non-JSON lines printed so far, each once and in order, and the
\* event list holds no more events than JSON lines were printed.
C12_RawLineEmittedOnce ==
    /\ Len(SelectSeq(emitted, IsStreamChunk)) = Len(RawLinesSoFar)
    /\ \A i \in 1..Len(RawLinesSoFar) :
          SelectSeq(emitted, IsStreamChunk)[i].info = Text(RawLinesSoFar[i])
    /\ Len(FeedRunner.events) <= Len(JsonLinesSoFar)

IsStreamEvent(e) == e.sig = "runner.stream_event"

\* the complete lines printed so far that spell a JSON object
ObjectLinesSoFar == SelectSeq(CompleteLines(FeedRunner.output_buffer), IsObject)

\* C13: at every point of the invocation the collected event list, and the
\* sequence of stream_event signals, are the events of the complete JSON
\* object lines printed so far, in the order of the lines, whatever the
\* chunking.
C13_EventsInLineOrder ==
    /\ Len(FeedRunner.events) = Len(ObjectLinesSoFar)
    /\ Len(SelectSeq(emitted, IsStreamEvent)) = Len(ObjectLinesSoFar)
    /\ \A i \in 1..Len(ObjectLinesSoFar) :
          /\ FeedRunner.events[i] = FromJson(Loads(ObjectLinesSoFar[i]))
          /\ SelectSeq(emitted, IsStreamEvent)[i].info =
                 FromJson(Loads(ObjectLinesSoFar[i])).type

\* the trailing text the runner holds that no newline has ended yet
TrailingLine == StripText(FeedRunner.line_buffer)

\* C14: when the process exits while the line buffer holds a JSON object
\* line that no newline has ended, the exit step decodes it: its event is
\* appended to the collected events.
C14_TrailingLineDecodedAtExit ==
    [][(/\ lastOp'.op = "finished"
        /\ ~HasNL(FeedRunner.line_buffer)
        /\ IsObject(TrailingLine))
           => runnerObj'[FeedSid].events =
                  Append(FeedRunner.events, FromJson(Loads(TrailingLine)))]_vars

\* an error the runner reports that is no QProcess error: buffered stderr
IsStderrReport(e) ==
    /\ e.sig = "runner.error_occurred"
    /\ e.info \notin Range(ErrorMessages)
IsErrorReport(e) == e.sig = "runner.error_occurred"

\* C15: a step that reads stderr reports no error and leaves every session
\* as it was; the step in which a process exits reports the stderr that
\* process wrote, once, if the exit code is not 0 and that stderr is not
\* blank, and reports nothing from stderr otherwise.
C15_StderrReportedAtExit ==
    /\ [][lastOp'.op = "stderr"
             => /\ sessions' = sessions
                /\ SelectSeq(emitted', IsErrorReport) = <<>>]_vars
    /\ [][(lastOp'.op = "finished" /\ lastOp'.sid \in DOMAIN runnerObj)
             => LET own == Text(StripText(procs[lastOp'.pid].err))
                    reports == SelectSeq(emitted', IsStderrReport)
                IN  IF lastOp'.exit_code # 0 /\ own # ""
                    THEN Len(reports) = 1 /\ reports[1].info = own
                    ELSE reports = <<>>]_vars

IsResponse(e) == e.sig = "runner.response_received"
IsAssistant(m) == m.role = "assistant"
IsResultLine(line) == IsResultText(FromJson(Loads(line)))

\* C16: once the process has finished, the response_received and the
\* stream_event signals of the whole invocation are as many as the complete
\* JSON object lines printed, and the history holds one assistant message per
\* result line with text.
C16_FinishDoesNotReprocess ==
    procs[1].state = "NotRunning" =>
        /\ Len(SelectSeq(emitted, IsResponse)) = Len(ObjectLinesSoFar)
        /\ Len(SelectSeq(emitted, IsStreamEvent)) = Len(ObjectLinesSoFar)
        /\ Len(SelectSeq(sessions[FeedSid].messages, IsAssistant)) =
               Len(SelectSeq(ObjectLinesSoFar, IsResultLine))

HasToken(e) == e.session_id # NoneStr
TokenOf(s) == sessions[s].claude_session_id

\* C17: a stdout step that decodes events carrying a session id leaves the
\* session's continuation token equal to the last of them, whatever the type
\* of the event; no other step changes the token of an existing session; and
\* every process launched for a session gets --resume with the session's
\* token at that moment.
C17_TokenFollowsEvents ==
    /\ [][\A s \in SessionIds :
             (StdoutStep(s) /\ SelectSeq(NewEvents(s), HasToken) # <<>>)
                 => LET seen == SelectSeq(NewEvents(s), HasToken)
                    IN  sessions'[s].claude_session_id = seen[Len(seen)].session_id]_vars
    /\ [][\A s \in SessionIds :
             (Exists(s) /\ s \in DOMAIN sessions' /\ lastOp'.op # "stdout")
                 => sessions'[s].claude_session_id = TokenOf(s)]_vars
    /\ [][\A s \in SessionIds :
             (Exists(s) /\ lastOp'.sid = s /\ lastOp'.launched # 0)
                 => procs'[lastOp'.launched].args.resume = TokenOf(s)]_vars

C17_Witness ==
    /\ lastOp.op = "respond_permission" /\ lastOp.launched # 0
    /\ procs[lastOp.launched].args.resume = "tokC"
    /\ TokenOf(lastOp.sid) = "tokC"

\* QProcess p is running and was asked to terminate
Cancelled(p) == p \in Pids /\ procs[p].state = "Running" /\ procs[p].signal # "none"
Ended(p) == p \in Pids /\ procs[p].state = "NotRunning"
TurnRunning(p) == p \in Pids /\ StatusRunning(procs[p].sid)

\* C18: cancel_request on a session whose runner is running asks the current
\* QProcess to terminate and arms one timer, leaving the process running (the
\* call does not wait); a timer step changes nothing but to kill a process
\* that is still running; a process asked to terminate eventually ends, and
\* its session, if it exists, eventually is not running.
C18_CancelEndsTheTurn ==
    /\ [][\A s \in SessionIds :
             (lastOp'.op = "cancel_request" /\ lastOp'.sid = s
              /\ s \in runners /\ IsRunning(s))
                 => LET p == runnerObj[s].process
                    IN  /\ procs'[p].signal # "none"
                        /\ procs'[p].state = "Running"
                        /\ timers'[s] = timers[s] + 1]_vars
    /\ [][lastOp'.op = "timer"
             => \A p \in Pids :
                   \/ procs'[p] = procs[p]
                   \/ /\ procs[p].state = "Running"
                      /\ procs'[p] = [procs[p] EXCEPT !.signal = "kill"]]_vars
    /\ \A p \in 1..MaxProcs : Cancelled(p) ~> Ended(p)
    /\ \A p \in 1..MaxProcs :
          (Cancelled(p) /\ TurnRunning(p)) ~> ~TurnRunning(p)

IsPrefix(u, v) == Len(u) <= Len(v) /\ SubSeq(v, 1, Len(u)) = u

\* C19: every step leaves the history of a session that exists before and
\* after it with its old messages, unchanged and in place, as a prefix.
C19_HistoryAppendOnly ==
    [][\A s \in SessionIds :
          (Exists(s) /\ s \in DOMAIN sessions')
              => IsPrefix(sessions[s].messages, sessions'[s].messages)]_vars

C19_Witness ==
    \E s \in SessionIds :
        /\ Exists(s) /\ lastOp.op = "stdout" /\ lastOp.sid = s
        /\ Len(sessions[s].messages) >= 2
        /\ sessions[s].messages[1].role = "user"
        /\ sessions[s].messages[Len(sessions[s].messages)].role = "assistant"

\* what the manager and the runner hold for session b: its record, its
\* pending permission and pending turn, its runner and its QProcess objects
Holds(b, ss, pp, pm, rs, ro, ps) ==
    [session |-> IF b \in DOMAIN ss THEN <<ss[b]>> ELSE <<>>,
     permission |-> IF b \in DOMAIN pp THEN <<pp[b]>> ELSE <<>>,
     turn |-> IF b \in DOMAIN pm THEN <<pm[b]>> ELSE <<>>,
     has_runner |-> b \in rs,
     runner |-> IF b \in DOMAIN ro THEN <<ro[b]>> ELSE <<>>,
     processes |-> SelectSeq(ps, LAMBDA q : q.sid = b)]

\* C20: a step of session a (a call for it, or an event of one of its
\* processes, timers or runner) leaves the record (history, status, token),
\* the pending permission, the pending turn, the runner and the processes of
\* every other session b as they were.
C20_SessionsIndependent ==
    [][\A a \in PairIds, b \in PairIds :
          (a # b /\ lastOp'.sid = a)
              => Holds(b, sessions', pending_permissions', pending_messages',
                       runners', runnerObj', procs')
                 = Holds(b, sessions, pending_permissions, pending_messages,
                         runners, runnerObj, procs)]_vars

C20_Witness ==
    \E a \in PairIds, b \in PairIds :
        /\ a # b /\ lastOp.sid = a /\ lastOp.op = "finished"
        /\ Exists(a) /\ sessions[a].status = "idle"
        /\ StatusRunning(b) /\ LiveOf(b) # {}
        /\ b \in DOMAIN pending_permissions

\* the pending permission the manager stores for a permission_request event
PermissionOf(e) ==
    [request_id |-> OrEmptyStr(e.permission_request_id), tool_name |-> e.tool_name,
     tool_input |-> OrEmptyDict(e.tool_input)]
IsPermissionRequest(e) == e.type = "permission_request" /\ TruthyStr(e.tool_name)
Surfaced(s, sig) == \E i \in 1..Len(emitted') : emitted'[i].sig = sig /\ emitted'[i].sid = s

\* C21: a chunk of stdout that decodes to permission_request events only
\* leaves the request of the last one stored as the session's pending
\* permission, emits permission_requested for the session, and leaves the
\* session's status and history as they were.
C21_PermissionRequestStored ==
    [][\A s \in SessionIds :
          (/\ StdoutStep(s) /\ NewEvents(s) # <<>>
           /\ \A i \in 1..Len(NewEvents(s)) : IsPermissionRequest(NewEvents(s)[i]))
              => /\ s \in DOMAIN pending_permissions'
                 /\ pending_permissions'[s]
                        = PermissionOf(NewEvents(s)[Len(NewEvents(s))])
                 /\ Surfaced(s, "permission_requested")
                 /\ sessions'[s].status = sessions[s].status
                 /\ sessions'[s].messages = sessions[s].messages]_vars

C21_Witness ==
    /\ lastOp.op = "stdout" /\ lastOp.sid = "s1"
    /\ "s1" \in DOMAIN pending_permissions
    /\ pending_permissions["s1"]
           = [request_id |-> "r1", tool_name |-> "Bash", tool_input |-> BashInput("rm")]
    /\ \E i \in 1..Len(emitted) : emitted[i].sig = "permission_requested"
    /\ StatusRunning("s1")

\* C22: after a permission response was processed for a session, the session
\* holds a pending turn only if the response replayed the turn (and so
\* recorded it again).
C22_PendingTurnCleared ==
    [][\A s \in SessionIds :
          (lastOp'.op = "respond_permission" /\ lastOp'.sid = s
           /\ s \in DOMAIN pending_permissions)
              => (s \in DOMAIN pending_messages' => lastOp'.launched # 0)]_vars

\* C23: a send that launches a process leaves the turn it was given as the
\* pending turn, the user message as the one new message, the status running,
\* and has emitted, in this order, message_received for the user message,
\* status_changed(running), and the runner's process_started for the process
\* launched with the expanded message of the pending turn.
C23_SendOrder ==
    [][\A s \in SessionIds :
          (lastOp'.op = "send_message" /\ lastOp'.sid = s /\ lastOp'.launched # 0)
              => /\ s \in DOMAIN pending_messages'
                 /\ procs'[lastOp'.launched].args.message
                        = pending_messages'[s].full_message
                 /\ NewMessages(s)
                        = <<[role |-> "user",
                             content |-> JStr(pending_messages'[s].message)]>>
                 /\ sessions'[s].status = "running"
                 /\ emitted' = <<Signal("message_received", s, "user"),
                                 Signal("status_changed", s, "running"),
                                 Signal("runner.process_started", s, "")>>]_vars

C23_Witness ==
    /\ lastOp.op = "send_message" /\ lastOp.launched = 1
    /\ Len(emitted) = 3 /\ emitted[1].sig = "message_received"
    /\ emitted[3].sig = "runner.process_started"
    /\ pending_messages[lastOp.sid].message = "m1"
    /\ sessions[lastOp.sid].messages = <<[role |-> "user", content |-> JStr("m1")]>>
    /\ procs[1].args.message = "@f.py\n\nm1"

\* C24: a step that appended a message to a session's history, or changed
\* its continuation token, leaves sessions.json with the history and the
\* token the session has in memory.
C24_PersistedOnMutation ==
    [][\A s \in SessionIds :
          (/\ Exists(s) /\ s \in DOMAIN sessions'
           /\ \/ sessions'[s].messages # sessions[s].messages
              \/ sessions'[s].claude_session_id # sessions[s].claude_session_id)
              => /\ s \in DOMAIN saved'
                 /\ saved'[s].messages = sessions'[s].messages
                 /\ saved'[s].claude_session_id = sessions'[s].claude_session_id]_vars

\* how many signals sig the step emitted
Count(log, sig) == Len(SelectSeq(log, LAMBDA e : e.sig = sig))
Once(b) == IF b THEN 1 ELSE 0

\* C25: a line of stdout that decodes to one event makes the runner emit
\* stream_event exactly once, and of the specialised signals exactly:
\* assistant_text if the event is assistant with non-empty text,
\* tool_use_started if it is tool_use with a tool name, tool_result_received
\* if it is tool_result with a tool name, permission_requested if it is
\* permission_request with a tool name, and none otherwise.
C25_OneGenericAtMostOneSpecial ==
    [][\A s \in SessionIds :
          (StdoutStep(s) /\ Len(NewEvents(s)) = 1)
              => LET e == NewEvents(s)[1]
                 IN  /\ Count(emitted', "runner.stream_event") = 1
                     /\ Count(emitted', "runner.assistant_text")
                            = Once(e.type = "assistant" /\ e.content # "")
                     /\ Count(emitted', "runner.tool_use_started")
                            = Once(e.type = "tool_use" /\ TruthyStr(e.tool_name))
                     /\ Count(emitted', "runner.tool_result_received")
                            = Once(e.type = "tool_result" /\ TruthyStr(e.tool_name))
                     /\ Count(emitted', "runner.permission_requested")
                            = Once(e.type = "permission_request"
                                   /\ TruthyStr(e.tool_name))]_vars

C25_Witness ==
    /\ lastOp.op = "stdout"
    /\ Len(runnerObj["s1"].events) = 2
    /\ runnerObj["s1"].events[1].type = "tool_use"
    /\ runnerObj["s1"].events[1].tool_name = NoneStr
    /\ runnerObj["s1"].events[2].type = "tool_result"
    /\ Count(emitted, "runner.stream_event") = 1
    /\ Count(emitted, "runner.tool_result_received") = 1
    /\ Count(emitted, "runner.tool_use_started") = 0

IsSuffix(u, v) == Len(u) <= Len(v) /\ SubSeq(v, Len(v) - Len(u) + 1, Len(v)) = u

\* C26: a step that gives a runner a new current process is a launch and
\* leaves the runner's output buffer, line buffer, stderr buffer and event
\* list empty; and at every step the carry-over in the line buffer is the end
\* of the output read since the launch and the events are not more than the
\* complete lines read since the launch.
C26_FreshStatePerInvocation ==
    [][\A s \in SessionIds :
          s \in DOMAIN runnerObj'
              => LET old == IF s \in DOMAIN runnerObj THEN runnerObj[s].process ELSE 0
                     new == runnerObj'[s]
                 IN  /\ (new.process # 0 /\ new.process # old)
                            => /\ lastOp'.launched = new.process
                               /\ new.output_buffer = <<>>
                               /\ new.line_buffer = <<>>
                               /\ new.stderr_buffer = <<>>
                               /\ new.events = <<>>
                     /\ IsSuffix(new.line_buffer, new.output_buffer)
                     /\ Len(new.events) <= Len(CompleteLines(new.output_buffer))]_vars

C26_Witness ==
    /\ lastOp.op = "send_message" /\ lastOp.launched = 2
    /\ procs[1].state = "NotRunning"
    /\ \E i \in 1..Len(sessions["s1"].messages) :
           sessions["s1"].messages[i].role = "assistant"
    /\ runnerObj["s1"].process = 2
    /\ runnerObj["s1"].events = <<>>
    /\ runnerObj["s1"].output_buffer = <<>>

\* the pattern the claim gives for a stored permission
PatternFor(perm) ==
    CASE perm.tool_name \in {"Read", "Write", "Edit"} ->
             perm.tool_name \o "(" \o GetOr(perm.tool_input.file_path) \o ")"
      [] perm.tool_name = "Bash" ->
             "Bash(" \o GetOr(perm.tool_input.command) \o ")"
      [] OTHER -> perm.tool_name

\* C27: the process launched by an accepted permission has as its allowlist
\* the one pattern built from the permission that was stored for the session
\* when the response came: Tool(file_path) for Read, Write and Edit,
\* Bash(command) for Bash, the bare tool name for any other tool.
C27_ToolPattern ==
    [][\A s \in SessionIds :
          (/\ lastOp'.op = "respond_permission" /\ lastOp'.sid = s
           /\ lastOp'.launched # 0)
              => /\ s \in DOMAIN pending_permissions
                 /\ procs'[lastOp'.launched].args.allowed_tools
                        = <<PatternFor(pending_permissions[s])>>]_vars

C27_Witness ==
    /\ lastOp.op = "respond_permission" /\ lastOp.launched = 2
    /\ lastOp.perm.tool_name = "Write"
    /\ procs[2].args.allowed_tools = <<"Write(b.txt)">>

\* C28: a line of stdout that decodes to a result event with empty text
\* appends no message to the history, leaves the session's continuation
\* token equal to the token of the event (when it carries one), and leaves
\* sessions.json with the history and the token the session has in memory.
C28_EmptyResult ==
    [][\A s \in SessionIds :
          (/\ StdoutStep(s) /\ Len(NewEvents(s)) = 1
           /\ NewEvents(s)[1].type = "result" /\ NewEvents(s)[1].content = "")
              => /\ NewMessages(s) = <<>>
                 /\ TruthyStr(NewEvents(s)[1].session_id)
                        => sessions'[s].claude_session_id = NewEvents(s)[1].session_id
                 /\ s \in DOMAIN saved'
                 /\ saved'[s].messages = sessions'[s].messages
                 /\ saved'[s].claude_session_id = sessions'[s].claude_session_id]_vars

\* C29: a line of stdout that decodes to a result event with non-empty text,
\* whether the result is a string or an object with a text field, appends one
\* assistant message whose content is that text.
C29_ContentIsResultText ==
    [][\A s \in SessionIds :
          (/\ StdoutStep(s) /\ Len(NewEvents(s)) = 1
           /\ IsResultText(NewEvents(s)[1]))
              => /\ Len(NewMessages(s)) = 1
                 /\ NewMessages(s)[1].role = "assistant"
                 /\ NewMessages(s)[1].content = JStr(NewEvents(s)[1].content)]_vars

\* C30: at every point of the invocation each complete non-empty line printed
\* so far has yielded a stream event or raw text, and the runner holds no
\* complete line back: the signals stream_event and stream_chunk emitted so
\* far are as many as the lines, and the line buffer has no newline.
C30_EveryLineYields ==
    /\ Len(SelectSeq(emitted, IsStreamEvent)) + Len(SelectSeq(emitted, IsStreamChunk))
           = Len(CompleteLines(FeedRunner.output_buffer))
    /\ ~HasNL(FeedRunner.line_buffer)

\* an accepted response that consumed a stored permission for Bash(rm) of a
\* session that exists, and a process launched with that pattern
AcceptedBashRm ==
    /\ lastOp.op = "respond_permission" /\ lastOp.accept
    /\ lastOp.perm.tool_name = "Bash" /\ lastOp.perm.tool_input.command = "rm"
    /\ Exists(lastOp.sid)
ReplayedBashRm == \E p \in Pids : procs[p].args.allowed_tools = <<"Bash(rm)">>

\* C31: whenever an accepted response has consumed the stored permission of
\* an existing session, whether or not the process that asked is still
\* running, a process carrying the granted pattern is launched, in that step
\* or later.
C31_AcceptNeverLost == AcceptedBashRm ~> ReplayedBashRm

\* C32: the process launched by an accepted permission carries the message
\* and the model of the process whose output made the manager store that
\* permission, whatever was sent in between.
C32_ReplayIsTheAskingTurn ==
    [][\A s \in SessionIds :
          (/\ lastOp'.op = "respond_permission" /\ lastOp'.sid = s
           /\ lastOp'.launched # 0)
              => /\ asker[s] \in Pids
                 /\ procs'[lastOp'.launched].args.message
                        = procs[asker[s]].args.message
                 /\ procs'[lastOp'.launched].args.model
                        = procs[asker[s]].args.model]_vars

\* C33: a step of the kill timer sends the kill signal only to a QProcess
\* that cancel() had asked to terminate.
C33_TimerKillsOnlyTheCancelled ==
    [][lastOp'.op = "timer"
          => \A p \in Pids :
                (procs'[p].signal = "kill" /\ procs[p].signal # "kill")
                    => procs[p].signal = "term"]_vars

\* C34: at every point of the invocation no complete line has been handled
\* more than once: the lines handled so far (raw text emitted, or JSON handed
\* to the response handler) are no more than the complete lines printed so
\* far, and the assistant messages recorded are no more than the result
\* lines printed.
C34_LineHandledOnce ==
    /\ Len(SelectSeq(emitted, IsLineSignal))
           <= Len(CompleteLines(FeedRunner.output_buffer))
    /\ Len(SelectSeq(sessions[FeedSid].messages, LAMBDA m : m.role = "assistant"))
           <= Len(SelectSeq(CompleteLines(FeedRunner.output_buffer),
                            LAMBDA line : line = <<"result">>))

\* C35: in every reachable state a session whose status is running has a
\* QProcess that was launched for it and has neither exited nor failed to
\* start.
C35_RunningHasProcess ==
    \A s \in SessionIds :
        StatusRunning(s) => \E p \in Pids : procs[p].sid = s /\ procs[p].state # "NotRunning"

C35_Witness ==
    /\ lastOp.op = "send_message" /\ lastOp.launched = 2
    /\ StatusRunning(lastOp.sid)
    /\ procs[1].state = "NotRunning" /\ procs[2].state = "Starting"
    /\ LiveOf(lastOp.sid) = {2}

\* C36: in every reachable state a session that exists and has a QProcess
\* that is starting or running has status running.
C36_LiveProcessMeansRunning ==
    \A s \in SessionIds : (Exists(s) /\ LiveOf(s) # {}) => StatusRunning(s)

\* C37: a permission response for a session with no stored permission
\* creates no process, emits nothing and leaves sessions, runners, pending
\* turns, pending permissions, timers and sessions.json as they were; and a
\* response that found a permission leaves none stored, so a second accept
\* finds nothing.
C37_RespondWithoutPermissionIsNoOp ==
    [][\A s \in SessionIds :
          (lastOp'.op = "respond_permission" /\ lastOp'.sid = s)
              => /\ s \notin DOMAIN pending_permissions'
                 /\ s \notin DOMAIN pending_permissions
                        => /\ lastOp'.launched = 0
                           /\ emitted' = <<>>
                           /\ UNCHANGED <<sessions, runners, runnerObj, procs,
                                          pending_messages, pending_permissions,
                                          timers, saved>>]_vars

C37_Witness ==
    /\ lastOp.op = "respond_permission" /\ lastOp.accept
    /\ lastOp.perm = NoPerm /\ lastOp.launched = 0
    /\ Len(procs) = 2 /\ procs[2].args.allowed_tools = <<"Bash(rm)">>
    /\ procs[2].state = "NotRunning"
    /\ lastOp.sid \in DOMAIN pending_messages

\* C38: in every reachable state every key of the runner map, of the
\* pending-turn map and of the pending-permission map is the id of a session
\* in the session map.
C38_NoStateForMissingSession ==
    /\ runners \subseteq DOMAIN sessions
    /\ DOMAIN pending_messages \subseteq DOMAIN sessions
    /\ DOMAIN pending_permissions \subseteq DOMAIN sessions

\* C39: in every reachable state the history of a session holds no more
\* system messages than QProcess objects were launched for the session (at
\* most one per invocation).
C39_OneErrorMessagePerInvocation ==
    \A s \in SessionIds :
        Exists(s) =>
            Len(SelectSeq(sessions[s].messages, LAMBDA m : m.role = "system"))
                <= Cardinality({p \in Pids : procs[p].sid = s})

====
